---------------------------- MODULE Spec2Model ----------------------------
(***************************************************************************)
(* A model of the Telegram bot of src/main.py: the handler table that the  *)
(* bot registers with the platform client, and its five handlers (start,   *)
(* handle_contact, gemini_chat, analyze_file, web_search) acting on the    *)
(* four MongoDB collections, the downloads/ directory and the replies      *)
(* sent back to the chat.                                                  *)
(*                                                                         *)
(* The platform client hands one update at a time to the first registered  *)
(* handler that matches it and runs that handler to completion.  Each      *)
(* handler is a sequence of steps, one per external call (gateway call,    *)
(* database write, reply), so that the order of the write and the reply is *)
(* visible.  An external call that can raise either returns or raises.     *)
(*                                                                         *)
(* Environment: updates are new messages (update.message is set) with a    *)
(* sender; reply_text delivers; a database write that raises has written   *)
(* nothing.  Strings are TLA+ strings; the two emoji of the reply labels   *)
(* are written as the ASCII names ":frame:" and ":mag:".  The timestamp    *)
(* field of the stored records is left out.                                *)
(***************************************************************************)
EXTENDS Integers, Sequences, FiniteSets, TLC

\* ------------------------------------------------------------------ bounds
\* Number of updates the router receives in a run.
MaxEvents == 2
\* Longest list of results the Search Gateway returns.
MaxResults == 2
\* Largest number of words after the /websearch command.
MaxArgs == 2

\* ------------------------------------------------------------- Python values
\* Python's None (an absent username, contact or document).
None == "<None>"
\* A field a stored document does not have.
Absent == "<absent>"

\* Python truthiness of an optional string: None and "" are falsy.
Truthy(s) == s # None /\ s # ""

\* Fault variant of OrElse: the value is used as it is, with no fallback.
OrElse_NoFallback(s, default) == s

\* `x if x else default`
OrElse(s, default) == IF Truthy(s) THEN s ELSE default

RECURSIVE Join(_, _)
\* sep.join(words)
Join(words, sep) ==
    IF Len(words) = 0 THEN ""
    ELSE IF Len(words) = 1 THEN words[1]
    ELSE words[1] \o sep \o Join(Tail(words), sep)

\* str(n) for the small naturals that number the search results.
Str(n) ==
    CASE n = 0 -> "0" [] n = 1 -> "1" [] n = 2 -> "2" [] n = 3 -> "3"
      [] n = 4 -> "4" [] n = 5 -> "5" [] n = 6 -> "6" [] n = 7 -> "7"
      [] n = 8 -> "8" [] n = 9 -> "9"

\* ------------------------------------------------------------ fixed strings
WelcomeText == "Welcome! Please share your contact."
RegistrationApology ==
    "Sorry, something went wrong during registration. Please try again later."
ContactThanks == "Thank you for sharing your contact!"
ContactApology ==
    "Sorry, something went wrong while processing your contact. Please try again later."
ChatFallback == "Sorry, I couldn't process that."
ChatApology == "Sorry, something went wrong. Please try again later."
AnalysisFallback == "Couldn't analyze the image."
AnalysisApology == "Sorry, I couldn't analyze this image."
UsageText == "Usage: /websearch <query>"
SearchApology == "Sorry, I couldn't perform the search."
NoUsername == "N/A"

\* ------------------------------------------------------------------ inputs
\* Senders as the platform reports them: one without a username, one with.
Senders ==
    { [id |-> 1, first_name |-> "Ann", username |-> None],
      [id |-> 2, first_name |-> "Bob", username |-> "bob"] }
\* The same id may come with another first name and username in a later
\* update: the first sender, renamed, registers again.
Renamed == { [id |-> 1, first_name |-> "Anna", username |-> "ann"] }

\* A group chat: its id is negative and is no user's id.  In a private chat
\* the chat id is the sender's id.
GroupChat == -100

\* The words a user types after /websearch: none, one, or the first MaxArgs
\* words of this sentence.
Sentence == <<"hello", "world", "again", "and", "more">>
ArgLists == { SubSeq(Sentence, 1, n) : n \in {0, 1, MaxArgs} }

\* The texts of a message, as its whitespace-separated words.
CommandTexts ==
    {<<"/start">>, <<"/help">>} \cup { <<"/websearch">> \o a : a \in ArgLists }
PlainTexts == {<<"hello", "world">>}
\* Words that start a bot command (a bot_command entity at offset 0).
CommandWords == {"/start", "/websearch", "/help"}

Phones == {"+111", "+222"}

\* message.text of a message that has no text (Python's None; a text is
\* never empty).
NoText == <<>>

\* The content of a message: Telegram sets one of text, contact, photo
\* (its sizes, smallest first) and document, or none of them (a sticker, a
\* location).
TextContents ==
    { [text |-> t, contact |-> None, photo |-> <<>>, document |-> None] :
        t \in CommandTexts \cup PlainTexts }
ContactContents ==
    { [text |-> NoText, contact |-> p, photo |-> <<>>, document |-> None] :
        p \in Phones }
FileContents ==
    { [text |-> NoText, contact |-> None, photo |-> <<"thumb", "f1">>,
       document |-> None],
      [text |-> NoText, contact |-> None, photo |-> <<>>, document |-> "f2"] }
OtherContents ==
    { [text |-> NoText, contact |-> None, photo |-> <<>>, document |-> None] }
Contents == TextContents \cup ContactContents \cup FileContents \cup OtherContents
\* What the model lets arrive in the group chat.
GroupContents ==
    { m \in Contents : m.text = <<"/start">> \/ m.contact # None }

Message(s, c, m) ==
    [from_user |-> s, chat_id |-> c, text |-> m.text, contact |-> m.contact,
     photo |-> m.photo, document |-> m.document]

\* update.message of the inbound updates.
Messages ==
    { Message(s, s.id, m) : s \in Senders, m \in Contents }
    \cup { Message(s, GroupChat, m) : s \in Senders, m \in GroupContents }
    \cup { Message(s, c, m) : s \in Renamed, c \in {1, GroupChat},
                             m \in { n \in Contents : n.text = <<"/start">> } }

NoMessage == Message([id |-> 0, first_name |-> "", username |-> None], 0,
                     [text |-> NoText, contact |-> None, photo |-> <<>>,
                      document |-> None])

\* What the generative model returns as response.text.
ModelTexts == {"", "Hi!"}

\* What the Search Gateway returns: no result, the first, the first
\* MaxResults results, or these in the opposite order.
SearchItem(i) == [title |-> "T" \o Str(i), url |-> "u" \o Str(i)]
SearchResultLists ==
    { <<>>, <<SearchItem(1)>>,
      [i \in 1..MaxResults |-> SearchItem(i)],
      [i \in 1..MaxResults |-> SearchItem(MaxResults + 1 - i)] }

\* ---------------------------------------------------------------- database
\* A document of db.users.  phone_number is Absent until a contact is shared.
UserDoc(chat_id, first_name, username, phone_number) ==
    [chat_id |-> chat_id, first_name |-> first_name, username |-> username,
     phone_number |-> phone_number]

\* The positions of the documents of coll whose chat_id is key.
Matching(coll, key) == { i \in 1..Len(coll) : coll[i].chat_id = key }

\* The first document that matches, which update_one updates.
FirstMatch(coll, key) ==
    CHOOSE i \in Matching(coll, key) : \A j \in Matching(coll, key) : i <= j

\* $set: the fields of set replace those of doc; the others stay.
SetFields(doc, set) ==
    [f \in DOMAIN doc |-> IF f \in DOMAIN set THEN set[f] ELSE doc[f]]

\* Fault variant of UpdateOne: an upsert inserts without looking for a match.
UpdateOne_AlwaysInserts(coll, key, set, upsert) ==
    IF upsert
    THEN Append(coll, SetFields(UserDoc(key, Absent, Absent, Absent), set))
    ELSE IF Matching(coll, key) # {}
    THEN [coll EXCEPT ![FirstMatch(coll, key)] = SetFields(@, set)]
    ELSE coll

\* collection.update_one({"chat_id": key}, {"$set": set}, upsert=upsert)
UpdateOne(coll, key, set, upsert) ==
    IF Matching(coll, key) # {}
    THEN [coll EXCEPT ![FirstMatch(coll, key)] = SetFields(@, set)]
    ELSE IF upsert
    THEN Append(coll, SetFields(UserDoc(key, Absent, Absent, Absent), set))
    ELSE coll

\* collection.insert_one(doc)
InsertOne(coll, doc) == Append(coll, doc)

\* ------------------------------------------------------------------- state
VARIABLES
    users,          \* db.users, in insertion order
    chat_history,   \* db.chat_history
    file_analysis,  \* db.file_analysis
    web_search,     \* db.web_search
    downloads,      \* the names of the files under downloads/
    sent,           \* the replies sent, in order: [chat_id, text]
    pc,             \* where the running handler stands; "idle" between updates
    message,        \* update.message of the update being (or last) handled
    local,          \* the running handler's bot_response / analysis_text / summary;
                    \* None once the handler has returned
    received,       \* number of updates received
    invoked,        \* the handlers the router invoked for the update, in order
    raised,         \* what raised while the update was handled
    searched,       \* the calls of the Search Gateway: [query, results]
    faults,         \* number of updates whose handler ended by an uncaught exception
    before          \* the collections, sent and searched as the update arrived

vars == <<users, chat_history, file_analysis, web_search, downloads, sent, pc,
          message, local, received, invoked, raised, searched, faults, before>>

db == <<users, chat_history, file_analysis, web_search>>

Snapshot ==
    [users |-> users, chat_history |-> chat_history,
     file_analysis |-> file_analysis, web_search |-> web_search,
     sent |-> sent, searched |-> searched]

Init ==
    /\ users = <<>>
    /\ chat_history = <<>>
    /\ file_analysis = <<>>
    /\ web_search = <<>>
    /\ downloads = {}
    /\ sent = <<>>
    /\ pc = "idle"
    /\ message = NoMessage
    /\ local = None
    /\ received = 0
    /\ invoked = <<>>
    /\ raised = {}
    /\ searched = <<>>
    /\ faults = 0
    /\ before = [users |-> <<>>, chat_history |-> <<>>, file_analysis |-> <<>>,
                 web_search |-> <<>>, sent |-> <<>>, searched |-> <<>>]

\* update.message.reply_text(text): a message to the chat the update came from.
ReplyText(text) == sent' = Append(sent, [chat_id |-> message.chat_id, text |-> text])

\* ------------------------------------------------------------------ router
\* filters.COMMAND: the text starts with a bot command.
IsCommand(m) == m.text # NoText /\ m.text[1] \in CommandWords

\* CommandHandler(name, ...): the text's first word is /name.
IsCommandNamed(m, name) == m.text # NoText /\ m.text[1] = "/" \o name

\* context.args: the words after the command.
Args(m) == Tail(m.text)

\* The handlers in the order add_handler registered them, all in group 0.
Handlers == <<"start", "web_search", "handle_contact", "gemini_chat", "analyze_file">>

\* Fault variant of Accepts: gemini_chat registered with filters.TEXT alone.
Accepts_TextWithCommands(h, m) ==
    CASE h = "start" -> IsCommandNamed(m, "start")
      [] h = "web_search" -> IsCommandNamed(m, "websearch")
      [] h = "handle_contact" -> m.contact # None
      [] h = "gemini_chat" -> m.text # NoText
      [] h = "analyze_file" -> m.photo # <<>> \/ m.document # None

\* The filter each handler was registered with.
Accepts(h, m) ==
    CASE h = "start" -> IsCommandNamed(m, "start")
      [] h = "web_search" -> IsCommandNamed(m, "websearch")
      [] h = "handle_contact" -> m.contact # None
      [] h = "gemini_chat" -> m.text # NoText /\ ~IsCommand(m)
      [] h = "analyze_file" -> m.photo # <<>> \/ m.document # None

\* The handlers the application runs for a message: within a group, the first
\* handler that accepts it, and no other.
Dispatch(m) ==
    LET accepting == { i \in 1..Len(Handlers) : Accepts(Handlers[i], m) }
    IN  IF accepting = {} THEN <<>>
        ELSE <<Handlers[CHOOSE i \in accepting : \A j \in accepting : i <= j]>>

\* Where each handler starts.
Entry(h) ==
    CASE h = "start" -> "start_upsert"
      [] h = "web_search" -> "web_query"
      [] h = "handle_contact" -> "contact_update"
      [] h = "gemini_chat" -> "chat_generate"
      [] h = "analyze_file" -> "file_fetch"

\* The application takes the next update and hands it to its handler; an
\* update no handler accepts is dropped.
Receive ==
    /\ pc = "idle"
    /\ received < MaxEvents
    /\ \E m \in Messages :
        /\ message' = m
        /\ invoked' = Dispatch(m)
        /\ pc' = IF Dispatch(m) = <<>> THEN "idle" ELSE Entry(Dispatch(m)[1])
    /\ received' = received + 1
    /\ raised' = {}
    /\ local' = None
    /\ before' = Snapshot
    /\ UNCHANGED <<db, downloads, sent, searched, faults>>

\* An exception the handler does not catch ends the handling of the update:
\* the application logs it and goes on with the next update.
Uncaught(what) ==
    /\ raised' = raised \cup {what}
    /\ faults' = faults + 1
    /\ pc' = "idle"

\* --------------------------------------------------- start (registration)
\* The username stored with a record: "N/A" for a sender without one.
StoredUsername(user) == OrElse(user.username, NoUsername)

\* db.users.update_one(..., upsert=True) in start
StartUpsert ==
    /\ pc = "start_upsert"
    /\ \/ /\ users' = UpdateOne(users, message.from_user.id,
                          [first_name |-> message.from_user.first_name,
                           username |-> StoredUsername(message.from_user),
                           chat_id |-> message.from_user.id], TRUE)
          /\ pc' = "start_reply"
          /\ UNCHANGED raised
       \/ /\ raised' = raised \cup {"db"}
          /\ pc' = "start_except"
          /\ UNCHANGED users
    /\ UNCHANGED <<chat_history, file_analysis, web_search, downloads, sent,
                   message, local, received, invoked, searched, faults, before>>

\* The welcome with the Share Contact keyboard.
StartReply ==
    /\ pc = "start_reply"
    /\ ReplyText(WelcomeText)
    /\ pc' = "idle"
    /\ local' = None
    /\ UNCHANGED <<db, downloads, message, received, invoked, raised,
                   searched, faults, before>>

StartExcept ==
    /\ pc = "start_except"
    /\ ReplyText(RegistrationApology)
    /\ pc' = "idle"
    /\ local' = None
    /\ UNCHANGED <<db, downloads, message, received, invoked, raised,
                   searched, faults, before>>

\* ---------------------------------------------------------- handle_contact
\* db.users.update_one({"chat_id": update.message.chat_id}, ...) in handle_contact
ContactUpdate ==
    /\ pc = "contact_update"
    /\ \/ /\ users' = UpdateOne(users, message.chat_id,
                                [phone_number |-> message.contact], FALSE)
          /\ pc' = "contact_reply"
          /\ UNCHANGED raised
       \/ /\ raised' = raised \cup {"db"}
          /\ pc' = "contact_except"
          /\ UNCHANGED users
    /\ UNCHANGED <<chat_history, file_analysis, web_search, downloads, sent,
                   message, local, received, invoked, searched, faults, before>>

ContactReply ==
    /\ pc = "contact_reply"
    /\ ReplyText(ContactThanks)
    /\ pc' = "idle"
    /\ local' = None
    /\ UNCHANGED <<db, downloads, message, received, invoked, raised,
                   searched, faults, before>>

ContactExcept ==
    /\ pc = "contact_except"
    /\ ReplyText(ContactApology)
    /\ pc' = "idle"
    /\ local' = None
    /\ UNCHANGED <<db, downloads, message, received, invoked, raised,
                   searched, faults, before>>

\* ------------------------------------------------------------- gemini_chat
\* update.message.text
MessageText(m) == Join(m.text, " ")

\* Fault variant of ChatGenerate: a raising gateway call is taken for an empty
\* answer and the exchange is stored.
ChatGenerate_StoresOnRaise ==
    /\ pc = "chat_generate"
    /\ \/ \E text \in ModelTexts :
            /\ local' = OrElse(text, ChatFallback)
            /\ pc' = "chat_insert"
            /\ UNCHANGED raised
       \/ /\ raised' = raised \cup {"gateway"}
          /\ local' = ChatFallback
          /\ pc' = "chat_insert"
    /\ UNCHANGED <<db, downloads, sent, message, received, invoked, searched,
                   faults, before>>

\* model.generate_content(user_message) and the fallback for an empty text
ChatGenerate ==
    /\ pc = "chat_generate"
    /\ \/ \E text \in ModelTexts :
            /\ local' = OrElse(text, ChatFallback)
            /\ pc' = "chat_insert"
            /\ UNCHANGED raised
       \/ /\ raised' = raised \cup {"gateway"}
          /\ pc' = "chat_except"
          /\ UNCHANGED local
    /\ UNCHANGED <<db, downloads, sent, message, received, invoked, searched,
                   faults, before>>

ChatRecord(m, bot_response) ==
    [chat_id |-> m.from_user.id, first_name |-> m.from_user.first_name,
     username |-> StoredUsername(m.from_user), user_message |-> MessageText(m),
     bot_response |-> bot_response]

\* Fault variant of ChatInsert: a raising insert is ignored and the answer is
\* sent all the same.
ChatInsert_Swallows ==
    /\ pc = "chat_insert"
    /\ \/ /\ chat_history' = InsertOne(chat_history, ChatRecord(message, local))
          /\ UNCHANGED raised
       \/ /\ raised' = raised \cup {"db"}
          /\ UNCHANGED chat_history
    /\ pc' = "chat_reply"
    /\ UNCHANGED <<users, file_analysis, web_search, downloads, sent, message,
                   local, received, invoked, searched, faults, before>>

\* db.chat_history.insert_one(...)
ChatInsert ==
    /\ pc = "chat_insert"
    /\ \/ /\ chat_history' = InsertOne(chat_history, ChatRecord(message, local))
          /\ pc' = "chat_reply"
          /\ UNCHANGED raised
       \/ /\ raised' = raised \cup {"db"}
          /\ pc' = "chat_except"
          /\ UNCHANGED chat_history
    /\ UNCHANGED <<users, file_analysis, web_search, downloads, sent, message,
                   local, received, invoked, searched, faults, before>>

ChatReply ==
    /\ pc = "chat_reply"
    /\ ReplyText(local)
    /\ pc' = "idle"
    /\ local' = None
    /\ UNCHANGED <<db, downloads, message, received, invoked, raised,
                   searched, faults, before>>

ChatExcept ==
    /\ pc = "chat_except"
    /\ ReplyText(ChatApology)
    /\ pc' = "idle"
    /\ local' = None
    /\ UNCHANGED <<db, downloads, message, received, invoked, raised,
                   searched, faults, before>>

\* ------------------------------------------------------------ analyze_file
\* The document's file id, or that of the last (largest) size of the photo.
FileId(m) == IF m.document # None THEN m.document ELSE m.photo[Len(m.photo)]

FileName(m) == "downloads/" \o FileId(m) \o ".jpg"

\* Fault variant of FileFetch: the fetch inside the try block, so that its
\* failure is answered with the apology.
FileFetch_Caught ==
    /\ pc = "file_fetch"
    /\ \/ /\ downloads' = downloads \cup {FileName(message)}
          /\ pc' = "file_generate"
          /\ UNCHANGED raised
       \/ /\ raised' = raised \cup {"fetch"}
          /\ pc' = "file_except"
          /\ UNCHANGED downloads
    /\ UNCHANGED <<db, sent, message, local, received, invoked, searched,
                   faults, before>>

\* context.bot.get_file, requests.get and the write of the local file: they
\* stand before the try block, so what they raise is not caught.
FileFetch ==
    /\ pc = "file_fetch"
    /\ \/ /\ downloads' = downloads \cup {FileName(message)}
          /\ pc' = "file_generate"
          /\ UNCHANGED <<raised, faults>>
       \/ /\ Uncaught("fetch")
          /\ UNCHANGED downloads
    /\ UNCHANGED <<db, sent, message, local, received, invoked, searched, before>>

\* model.generate_content(["Describe this image:", file]) and the fallback
FileGenerate ==
    /\ pc = "file_generate"
    /\ \/ \E text \in ModelTexts :
            /\ local' = OrElse(text, AnalysisFallback)
            /\ pc' = "file_insert"
            /\ UNCHANGED raised
       \/ /\ raised' = raised \cup {"gateway"}
          /\ pc' = "file_except"
          /\ UNCHANGED local
    /\ UNCHANGED <<db, downloads, sent, message, received, invoked, searched,
                   faults, before>>

FileAnalysisRecord(m, analysis_text) ==
    [chat_id |-> m.from_user.id, first_name |-> m.from_user.first_name,
     username |-> StoredUsername(m.from_user), file_name |-> FileName(m),
     analysis |-> analysis_text]

\* db.file_analysis.insert_one(...)
FileInsert ==
    /\ pc = "file_insert"
    /\ \/ /\ file_analysis' =
                InsertOne(file_analysis, FileAnalysisRecord(message, local))
          /\ pc' = "file_reply"
          /\ UNCHANGED raised
       \/ /\ raised' = raised \cup {"db"}
          /\ pc' = "file_except"
          /\ UNCHANGED file_analysis
    /\ UNCHANGED <<users, chat_history, web_search, downloads, sent, message,
                   local, received, invoked, searched, faults, before>>

AnalysisReplyText(analysis_text) == ":frame: Image Analysis:\n" \o analysis_text

FileReply ==
    /\ pc = "file_reply"
    /\ ReplyText(AnalysisReplyText(local))
    /\ pc' = "idle"
    /\ local' = None
    /\ UNCHANGED <<db, downloads, message, received, invoked, raised,
                   searched, faults, before>>

FileExcept ==
    /\ pc = "file_except"
    /\ ReplyText(AnalysisApology)
    /\ pc' = "idle"
    /\ local' = None
    /\ UNCHANGED <<db, downloads, message, received, invoked, raised,
                   searched, faults, before>>

\* -------------------------------------------------------------- web_search
\* query = " ".join(context.args)
Query(m) == Join(Args(m), " ")

\* Fault variant of FormatSummary: the lines show enumerate's own count.
FormatSummary_FromZero(search_results) ==
    Join([k \in 1..Len(search_results) |->
            Str(k - 1) \o ". " \o search_results[k].title \o " - "
                \o search_results[k].url], "\n")

\* The numbered lines of the results, joined by newlines; enumerate counts
\* from 0 and the line shows i + 1.
FormatSummary(search_results) ==
    Join([k \in 1..Len(search_results) |->
            Str((k - 1) + 1) \o ". " \o search_results[k].title \o " - "
                \o search_results[k].url], "\n")

\* Fault variant of WebQuery: the usage hint without the return.
WebQuery_NoReturn ==
    /\ pc = "web_query"
    /\ IF Query(message) = ""
       THEN ReplyText(UsageText)
       ELSE UNCHANGED sent
    /\ pc' = "web_search_call"
    /\ UNCHANGED <<db, downloads, message, local, received, invoked, raised,
                   searched, faults, before>>

\* The test of the query: without one, the usage hint and return.
WebQuery ==
    /\ pc = "web_query"
    /\ IF Query(message) = ""
       THEN /\ ReplyText(UsageText)
            /\ pc' = "idle"
       ELSE /\ pc' = "web_search_call"
            /\ UNCHANGED sent
    /\ UNCHANGED <<db, downloads, message, local, received, invoked, raised,
                   searched, faults, before>>

\* search(query) and the summary of what it returns
WebSearchCall ==
    /\ pc = "web_search_call"
    /\ \/ \E search_results \in SearchResultLists :
            /\ searched' = Append(searched, [query |-> Query(message),
                                             results |-> search_results])
            /\ local' = FormatSummary(search_results)
            /\ pc' = "web_insert"
            /\ UNCHANGED raised
       \/ /\ searched' = Append(searched, [query |-> Query(message),
                                           results |-> <<>>])
          /\ raised' = raised \cup {"gateway"}
          /\ pc' = "web_except"
          /\ UNCHANGED local
    /\ UNCHANGED <<db, downloads, sent, message, received, invoked, faults,
                   before>>

WebSearchRecord(m, summary) ==
    [chat_id |-> m.from_user.id, first_name |-> m.from_user.first_name,
     username |-> StoredUsername(m.from_user), query |-> Query(m),
     results |-> summary]

\* db.web_search.insert_one(...)
WebInsert ==
    /\ pc = "web_insert"
    /\ \/ /\ web_search' = InsertOne(web_search, WebSearchRecord(message, local))
          /\ pc' = "web_reply"
          /\ UNCHANGED raised
       \/ /\ raised' = raised \cup {"db"}
          /\ pc' = "web_except"
          /\ UNCHANGED web_search
    /\ UNCHANGED <<users, chat_history, file_analysis, downloads, sent, message,
                   local, received, invoked, searched, faults, before>>

SearchReplyText(query, summary) ==
    ":mag: Web Search Results for: " \o query \o "\n\n" \o summary

WebReply ==
    /\ pc = "web_reply"
    /\ ReplyText(SearchReplyText(Query(message), local))
    /\ pc' = "idle"
    /\ local' = None
    /\ UNCHANGED <<db, downloads, message, received, invoked, raised,
                   searched, faults, before>>

\* Fault variant of WebExcept: the failure is logged and nothing is sent.
WebExcept_Silent ==
    /\ pc = "web_except"
    /\ pc' = "idle"
    /\ UNCHANGED <<db, downloads, sent, message, local, received, invoked,
                   raised, searched, faults, before>>

\* The except branch of web_search: the search apology.
WebExcept ==
    /\ pc = "web_except"
    /\ ReplyText(SearchApology)
    /\ pc' = "idle"
    /\ local' = None
    /\ UNCHANGED <<db, downloads, message, received, invoked, raised,
                   searched, faults, before>>

\* ----------------------------------------------------------- specification
\* A step of the handler that is running.
HandlerStep ==
    \/ StartUpsert \/ StartReply \/ StartExcept
    \/ ContactUpdate \/ ContactReply \/ ContactExcept
    \/ ChatGenerate \/ ChatInsert \/ ChatReply \/ ChatExcept
    \/ FileFetch \/ FileGenerate \/ FileInsert \/ FileReply \/ FileExcept
    \/ WebQuery \/ WebSearchCall \/ WebInsert \/ WebReply \/ WebExcept

Next == Receive \/ HandlerStep

Spec == Init /\ [][Next]_vars

\* A handler that was started runs on: each of its external calls returns or
\* raises.
FairSpec == Spec /\ WF_vars(HandlerStep)

\* ------------------------------------------------------------- properties
\* What the handling of the current update added to a sequence.
Added(now, was) == SubSeq(now, Len(was) + 1, Len(now))

NewChat == Added(chat_history, before.chat_history)
NewFiles == Added(file_analysis, before.file_analysis)
NewSearches == Added(web_search, before.web_search)
NewSent == Added(sent, before.sent)
NewCalls == Added(searched, before.searched)

\* The one reply to the chat of the update.
OnlyReply(text) == <<[chat_id |-> message.chat_id, text |-> text]>>

\* The handling of the last update by handler h has ended.
Handled(h) == pc = "idle" /\ received > 0 /\ invoked = <<h>>

\* --- C1
\* C1 as stated: every text message handled by gemini_chat leaves exactly one
\* new ChatRecord, with the message text and a non-empty bot_response.
C1_Original ==
    Handled("gemini_chat") =>
        /\ Len(NewChat) = 1
        /\ NewChat[1].user_message = MessageText(message)
        /\ NewChat[1].bot_response # ""

\* C1, amended: when neither the AI Gateway call nor the database write
\* raised, gemini_chat leaves exactly one new ChatRecord whose user_message is
\* the message text and whose bot_response is non-empty: the model's text, or
\* the fixed fallback when the model returned an empty text.
C1_OneChatRecord ==
    (Handled("gemini_chat") /\ raised = {}) =>
        /\ Len(NewChat) = 1
        /\ NewChat[1].user_message = MessageText(message)
        /\ NewChat[1].bot_response # ""
        /\ NewChat[1].bot_response \in (ModelTexts \ {""}) \cup {ChatFallback}

C1_Witness ==
    /\ Handled("gemini_chat") /\ raised = {}
    /\ Len(NewChat) = 1 /\ NewChat[1].bot_response = ChatFallback

\* --- C2
\* C2: when the AI Gateway call raises in gemini_chat, the only reply is the
\* generic apology and chat_history is as it was before the update.
C2_GatewayFailure ==
    (Handled("gemini_chat") /\ "gateway" \in raised) =>
        /\ NewSent = OnlyReply(ChatApology)
        /\ chat_history = before.chat_history

C2_Witness ==
    /\ Handled("gemini_chat") /\ "gateway" \in raised
    /\ before.chat_history # <<>>

\* --- C3
\* The sender's identity as start stores it.
HasIdentity(doc, user, username) ==
    /\ doc.chat_id = user.id
    /\ doc.first_name = user.first_name
    /\ doc.username = username

Identity(doc) ==
    [chat_id |-> doc.chat_id, first_name |-> doc.first_name,
     username |-> doc.username]

Identities(coll) == [i \in 1..Len(coll) |-> Identity(coll[i])]

UniqueChatIds ==
    \A i, j \in 1..Len(users) : users[i].chat_id = users[j].chat_id => i = j

\* C3 as stated, for the sender of the last /start: the one record of that
\* chat_id carries the sender's first_name and username.
C3_Original ==
    Handled("start") =>
        /\ UniqueChatIds
        /\ \E i \in 1..Len(users) :
              HasIdentity(users[i], message.from_user, message.from_user.username)

\* C3, amended: users holds at most one record per chat_id; after a /start
\* whose database write did not raise, the sender's record has the sender's
\* id, first_name and username, the username stored as "N/A" when the sender
\* has none; a /start with the identity already stored leaves users
\* unchanged; no other event, and no /start whose write raised, adds a record
\* or changes the chat_id, first_name or username of one, and a /start leaves
\* the records of the other senders as they were.
C3_Registration ==
    /\ UniqueChatIds
    /\ (Handled("start") /\ raised = {}) =>
          \E i \in 1..Len(users) :
              HasIdentity(users[i], message.from_user,
                          IF message.from_user.username = None
                          THEN "N/A" ELSE message.from_user.username)
    /\ (received > 0 /\ invoked = <<"start">>) =>
          /\ (\E i \in 1..Len(before.users) :
                 HasIdentity(before.users[i], message.from_user,
                             IF message.from_user.username = None
                             THEN "N/A" ELSE message.from_user.username))
                => users = before.users
          /\ \A i \in 1..Len(before.users) :
                before.users[i].chat_id # message.from_user.id
                    => i <= Len(users) /\ users[i] = before.users[i]
    /\ (invoked # <<"start">> \/ raised # {}) =>
          Identities(users) = Identities(before.users)

C3_Witness ==
    /\ Handled("start") /\ raised = {}
    /\ \E i \in 1..Len(before.users) :
          /\ before.users[i].chat_id = message.from_user.id
          /\ before.users[i].first_name # message.from_user.first_name
          /\ before.users[i].username = "N/A"

\* --- C4
\* C4: after a contact share by a registered sender, with no write raising,
\* the sender's record holds the shared phone number.
C4_Original ==
    ( /\ Handled("handle_contact") /\ raised = {}
      /\ \E i \in 1..Len(before.users) :
            before.users[i].chat_id = message.from_user.id )
    => \E i \in 1..Len(users) :
          /\ users[i].chat_id = message.from_user.id
          /\ users[i].phone_number = message.contact

\* --- C5
\* C5: /websearch without a query replies with the usage string only, calls
\* the Search Gateway not at all and leaves web_search as it was.
C5_EmptyQuery ==
    (received > 0 /\ invoked = <<"web_search">> /\ Args(message) = <<>>) =>
        /\ searched = before.searched
        /\ web_search = before.web_search
        /\ pc \in {"web_query", "idle"}
        /\ pc = "idle" => NewSent = OnlyReply("Usage: /websearch <query>")

C5_Witness ==
    /\ Handled("web_search") /\ Args(message) = <<>>
    /\ before.web_search # <<>>

\* --- C6
\* The line of the k-th result: "<k>. <title> - <url>".
ResultLine(k, result) == Str(k) \o ". " \o result.title \o " - " \o result.url

RECURSIVE NumberedLines(_, _)
\* The lines of the first n results, numbered from 1, each line but the
\* first after a newline.
NumberedLines(results, n) ==
    IF n = 0 THEN ""
    ELSE IF n = 1 THEN ResultLine(1, results[1])
    ELSE NumberedLines(results, n - 1) \o "\n" \o ResultLine(n, results[n])

RECURSIVE Spaced(_, _)
\* The first n words, each but the first after a single space.
Spaced(words, n) ==
    IF n = 0 THEN ""
    ELSE IF n = 1 THEN words[1]
    ELSE Spaced(words, n - 1) \o " " \o words[n]

\* The one WebSearchRecord of the update holds the query and the numbered
\* lines of what the Search Gateway returned.
RecordsTheSearch ==
    /\ Len(NewSearches) = 1
    /\ Len(NewCalls) = 1
    /\ NewSearches[1].query = Spaced(Args(message), Len(Args(message)))
    /\ NewSearches[1].results =
          NumberedLines(NewCalls[1].results, Len(NewCalls[1].results))

\* C6 as stated: whenever the Search Gateway returned a list for a non-empty
\* query, one WebSearchRecord with the query and the numbered lines exists.
C6_Original ==
    (Handled("web_search") /\ Args(message) # <<>> /\ "gateway" \notin raised)
        => RecordsTheSearch

\* C6, amended: for a /websearch with a non-empty query, when the Search
\* Gateway returns a list of results and the database write does not raise,
\* exactly one WebSearchRecord is created; its query is the arguments joined
\* by single spaces and its results are the lines "<i>. <title> - <url>",
\* numbered from 1, in the order returned, separated by newlines.
C6_SearchRecord ==
    (Handled("web_search") /\ Args(message) # <<>> /\ raised = {})
        => RecordsTheSearch

C6_Witness ==
    /\ Handled("web_search") /\ raised = {}
    /\ Len(Args(message)) = 2
    /\ Len(NewCalls) = 1 /\ Len(NewCalls[1].results) = 2
    /\ NewCalls[1].results[1].title = "T2"
    /\ Len(NewSearches) = 1
    /\ NewSearches[1].query = "hello world"
    /\ NewSearches[1].results = "1. T2 - u2\n2. T1 - u1"

\* --- C7
\* The categories of the router, told from the message alone.
Categories == {"start", "websearch", "contact", "attachment", "text"}

InCategory(c, m) ==
    CASE c = "start" -> m.text # NoText /\ m.text[1] = "/start"
      [] c = "websearch" -> m.text # NoText /\ m.text[1] = "/websearch"
      [] c = "contact" -> m.contact # None
      [] c = "attachment" -> m.photo # <<>> \/ m.document # None
      [] c = "text" -> m.text # NoText /\ m.text[1] \notin CommandWords

HandlerOf(c) ==
    CASE c = "start" -> "start"
      [] c = "websearch" -> "web_search"
      [] c = "contact" -> "handle_contact"
      [] c = "attachment" -> "analyze_file"
      [] c = "text" -> "gemini_chat"

\* The steps of each handler.
StepsOf(h) ==
    CASE h = "start" -> {"start_upsert", "start_reply", "start_except"}
      [] h = "handle_contact" ->
            {"contact_update", "contact_reply", "contact_except"}
      [] h = "gemini_chat" ->
            {"chat_generate", "chat_insert", "chat_reply", "chat_except"}
      [] h = "analyze_file" ->
            {"file_fetch", "file_generate", "file_insert", "file_reply",
             "file_except"}
      [] h = "web_search" ->
            {"web_query", "web_search_call", "web_insert", "web_reply",
             "web_except"}

\* C7: an update is in at most one category; the router invokes the handler
\* of that category, once, and only that handler runs; an update in no
\* category invokes no handler.
C7_Routing ==
    received > 0 =>
        LET cats == { c \in Categories : InCategory(c, message) }
        IN  /\ Cardinality(cats) <= 1
            /\ Len(invoked) <= 1
            /\ \A c \in cats : invoked = <<HandlerOf(c)>>
            /\ cats = {} => invoked = <<>> /\ pc = "idle"
            /\ pc # "idle" => pc \in StepsOf(invoked[1])

C7_Witness ==
    /\ received > 0 /\ pc = "idle"
    /\ message.text = <<"/help">> /\ invoked = <<>>
    /\ sent = before.sent /\ before.sent # <<>>

\* --- C8
\* C8: a failed fetch in analyze_file ends the handling of the update with no
\* FileAnalysisRecord and no reply, and the router is ready for the next
\* update; a failure of the AI Gateway is answered with the fixed apology and
\* leaves no FileAnalysisRecord.
C8_FileFailures ==
    /\ "fetch" \in raised =>
          /\ invoked = <<"analyze_file">>
          /\ pc = "idle"
          /\ file_analysis = before.file_analysis
          /\ sent = before.sent
          /\ received < MaxEvents => ENABLED Receive
    /\ (Handled("analyze_file") /\ "gateway" \in raised) =>
          /\ NewSent = OnlyReply("Sorry, I couldn't analyze this image.")
          /\ file_analysis = before.file_analysis

\* After a fetch had failed, a later attachment was handled, and the failure
\* of the AI Gateway on it was answered with the apology.
C8_Witness ==
    /\ faults > 0
    /\ Handled("analyze_file") /\ raised = {"gateway"}
    /\ before.sent = <<>> /\ before.file_analysis = <<>>
    /\ NewSent = OnlyReply(AnalysisApology)

\* --- C9
\* C9: every /websearch update ends with exactly one reply sent: the usage
\* string for an empty query, the formatted results when the search and the
\* write succeed, the search apology when either raises.
C9_AlwaysReplies ==
    (invoked = <<"web_search">> /\ pc # "idle")
        ~> ( /\ Handled("web_search")
             /\ Len(NewSent) = 1
             /\ Args(message) = <<>> => NewSent = OnlyReply(UsageText)
             /\ (Args(message) # <<>> /\ raised # {})
                    => NewSent = OnlyReply(SearchApology)
             /\ (Args(message) # <<>> /\ raised = {})
                    => /\ Len(NewCalls) = 1
                       /\ NewSent = OnlyReply(SearchReplyText(
                              Spaced(Args(message), Len(Args(message))),
                              NumberedLines(NewCalls[1].results,
                                            Len(NewCalls[1].results)))) )

C9_Witness ==
    /\ Handled("web_search") /\ "db" \in raised
    /\ NewSent = OnlyReply(SearchApology)

\* --- C10
\* C10: a reply with generated content is sent only once the record with that
\* content is in the database, and a database write that raises is answered
\* with the handler's apology.
C10_PersistBeforeReply ==
    /\ \A k \in 1..Len(NewSent) :
          /\ (invoked = <<"gemini_chat">> /\ NewSent[k].text # ChatApology) =>
                \E r \in 1..Len(NewChat) :
                    /\ NewChat[r].bot_response = NewSent[k].text
                    /\ NewChat[r].user_message = MessageText(message)
          /\ (invoked = <<"analyze_file">> /\ NewSent[k].text # AnalysisApology) =>
                \E r \in 1..Len(NewFiles) :
                    AnalysisReplyText(NewFiles[r].analysis) = NewSent[k].text
          /\ (invoked = <<"web_search">>
                /\ NewSent[k].text \notin {SearchApology, UsageText}) =>
                \E r \in 1..Len(NewSearches) :
                    SearchReplyText(NewSearches[r].query, NewSearches[r].results)
                        = NewSent[k].text
    /\ (pc = "idle" /\ "db" \in raised) =>
          /\ invoked = <<"gemini_chat">> => NewSent = OnlyReply(ChatApology)
          /\ invoked = <<"analyze_file">> => NewSent = OnlyReply(AnalysisApology)
          /\ invoked = <<"web_search">> => NewSent = OnlyReply(SearchApology)

C10_Witness ==
    /\ Handled("analyze_file") /\ raised = {}
    /\ Len(NewSent) = 1 /\ Len(NewFiles) = 1
    /\ NewSent[1].text = ":frame: Image Analysis:\nHi!"
    /\ NewFiles[1].analysis = "Hi!"

==========================================================================
